---- MODULE Spec2Model ----
(***************************************************************************)
(* Verification model of the AOC2025 puzzle solvers.                       *)
(*                                                                         *)
(*   day1/day1.cpp  class Dial : circular dial 0..99, rotation tokens,     *)
(*                  zero landing count and zero pass count.                *)
(*   day4/day4.cpp  class Map  : rectangular grid of paper rolls, Moore    *)
(*                  neighbour scan, accessible paper count.                *)
(*   day3/day3.cpp  class Bank<N>, class Battery<N> : the largest N-digit  *)
(*                  joltage of a row of digits, and the sum over rows.     *)
(*                                                                         *)
(* Text is modelled as a sequence of one-character strings.  A uint32_t    *)
(* that can exceed the checker's integer range is kept as two 16-bit       *)
(* limbs [hi, lo] (value hi * 65536 + lo), so that the narrowing cast of   *)
(* the parsed magnitude keeps its 32-bit width.  An unsigned long long     *)
(* joltage is kept as [hi, lo] with value hi * 1000000 + lo.               *)
(***************************************************************************)
EXTENDS Integers, Sequences, FiniteSets, TLC

VARIABLES
    \* ---- class Dial (day1.cpp:25-27) ----
    m_position,            \* std::uint32_t m_position{ 50 }
    m_zero_count,          \* std::uint32_t m_zero_count{ 0 }
    m_passes_zero_count,   \* std::uint32_t m_passes_zero_count{ 0 }
    terminated,            \* std::terminate was called (exception left a noexcept function)
    call,                  \* the member call that has just returned: [op, arg, args]; op "none" between calls
    ret,                   \* the value that call returned (0 between calls and for void)
    old,                   \* the Dial's fields right before that call
    landings,              \* history: valid tokens applied so far that left the dial at 0
    shadow,                \* history: a fresh Dial given the tokens applied since the last reset()
    was_reset,             \* history: reset() has been called on a Dial that was not fresh
    vi,                    \* history: how many tokens of verify()'s list have been applied, -1 when off the list
    \* ---- class Map (day4.cpp:50-54) ----
    m_width,               \* std::uint32_t m_width
    m_height,              \* std::uint32_t m_height
    m_map,                 \* std::vector<ObjType> m_map
    m_accessible_map,      \* std::vector<ObjType> m_accessible_map
    m_accessible_paper,    \* std::uint32_t m_accessible_paper
    map_data,              \* the text the Map was constructed from
    junk,                  \* the indices past the end of m_map, among those read, whose byte reads as ObjType::PAPER
    mstatus,               \* "none": not constructed, "ok": constructed, "aborted": the program was aborted
    mcall,                 \* the Map member call that has just returned: [op, i, j]; op "none" between calls
    mret,                  \* its outcome: [exc, b, n, reads], reads the indices of m_map it read
    \* ---- class Battery<N>, class Bank<N> (day3.cpp:13, 82) ----
    battery_N,             \* the template argument N
    battery_input,         \* the rows of digits the Battery was constructed from
    m_banks,               \* std::vector<Bank<N>> m_banks: the m_joltage of each Bank
    bstatus,               \* "none": not constructed, "ok": constructed, "aborted": an assert stopped the program
    bcall,                 \* the member call that has just returned: [op, k]; op "none" between calls
    bret                   \* the unsigned long long it returned

dialVars == <<m_position, m_zero_count, m_passes_zero_count, terminated, call,
              ret, old, landings, shadow, was_reset, vi>>
mapVars  == <<m_width, m_height, m_map, m_accessible_map, m_accessible_paper,
              map_data, junk, mstatus, mcall, mret>>
bankVars == <<battery_N, battery_input, m_banks, bstatus, bcall, bret>>
vars     == <<dialVars, mapVars, bankVars>>

----------------------------------------------------------------------------
(* Bounds of the model.                                                    *)

\* away from verify()'s token list, transform is not called once m_zero_count exceeds this
MaxZero == 1
\* away from verify()'s token list, transform is not called once m_passes_zero_count reaches this
MaxPasses == 2
\* every magnitude up to this one is among the tokens, in both directions
MaxMag == 101
\* longest token vector handed to transform(vector)
MaxSeqLen == 2
\* every grid of '.' and '@' with at most this many cells, and no side longer
\* than MaxSide, is among the Map inputs
MaxCells == 9
MaxSide == 4

----------------------------------------------------------------------------
(* Characters, decimal digits and 32-bit arithmetic.                       *)

Digits == <<"0", "1", "2", "3", "4", "5", "6", "7", "8", "9">>

DigitChars == {Digits[i] : i \in 1..10}

DigitVal(c) == (CHOOSE i \in 1..10 : Digits[i] = c) - 1

RECURSIVE ToDigits(_)
ToDigits(n) == IF n < 10 THEN <<Digits[n + 1]>>
               ELSE ToDigits(n \div 10) \o <<Digits[(n % 10) + 1]>>

Limb == 65536

U32(n) == IF n >= 0 THEN [hi |-> n \div Limb, lo |-> n % Limb]
          ELSE [hi |-> Limb - 1 - ((-n - 1) \div Limb), lo |-> Limb - 1 - ((-n - 1) % Limb)]

U32Ge(a, b) == a.hi > b.hi \/ (a.hi = b.hi /\ a.lo >= b.lo)

U32Div100(a) == a.hi * 655 + (a.hi * 36 + a.lo) \div 100

U32Mod100(a) == (a.hi * 36 + a.lo) % 100

U32MulAdd10(a, d) ==
    LET l == a.lo * 10 + d
    IN  [hi |-> (a.hi * 10 + l \div Limb) % Limb, lo |-> l % Limb]

RECURSIVE stoul_u32(_)
stoul_u32(ds) == IF ds = <<>> THEN U32(0)
                 ELSE U32MulAdd10(stoul_u32(SubSeq(ds, 1, Len(ds) - 1)), DigitVal(ds[Len(ds)]))

RECURSIVE StripZeros(_)
StripZeros(ds) == IF Len(ds) > 1 /\ ds[1] = "0" THEN StripZeros(Tail(ds)) ELSE ds

ULONG_MAX == <<"1","8","4","4","6","7","4","4","0","7","3","7","0","9","5","5","1","6","1","5">>

RECURSIVE DigitsGreater(_, _)
DigitsGreater(a, b) ==
    IF a = <<>> THEN FALSE
    ELSE IF DigitVal(a[1]) # DigitVal(b[1]) THEN DigitVal(a[1]) > DigitVal(b[1])
    ELSE DigitsGreater(Tail(a), Tail(b))

stoul_throws(ds) ==
    LET s == StripZeros(ds)
    IN  Len(s) > Len(ULONG_MAX) \/ (Len(s) = Len(ULONG_MAX) /\ DigitsGreater(s, ULONG_MAX))

----------------------------------------------------------------------------
(* class Dial.                                                             *)

\* regex_match with the direction class [LR] widened to any character
regex_match_any_letter(raw) ==
    /\ Len(raw) >= 2
    /\ \A k \in 2..Len(raw) : raw[k] \in DigitChars

regex_match(raw) ==
    /\ Len(raw) >= 2
    /\ raw[1] \in {"L", "R"}
    /\ \A k \in 2..Len(raw) : raw[k] \in DigitChars

is_valid_transform(raw) ==
    IF regex_match(raw)
    THEN [is_valid |-> TRUE, direction |-> (raw[1] = "R"), size |-> stoul_u32(Tail(raw))]
    ELSE [is_valid |-> FALSE, direction |-> FALSE, size |-> U32(0)]

\* passes_zero with > in place of >=
passes_zero_strict(position, t) ==
    LET distance == U32(IF t.direction THEN 100 - position ELSE position)
    IN  U32Ge(t.size, distance) /\ t.size # distance

passes_zero(position, t) ==
    U32Ge(t.size, U32(IF t.direction THEN 100 - position ELSE position))

zero_passes(position, t) ==
    IF ~passes_zero(position, t) THEN 0
    ELSE LET divisor   == U32Div100(t.size)
             remainder == U32Mod100(t.size)
         IN  divisor
             + (IF passes_zero(position, [t EXCEPT !.size = U32(remainder)]) THEN 1 ELSE 0)
             - (IF position = 0 /\ ~t.direction THEN 1 ELSE 0)

Fields(p, z, pz) ==
    [position |-> p, zero_count |-> z, passes_zero_count |-> pz, terminated |-> FALSE]

Fresh == Fields(50, 0, 0)

\* std::stoul throws std::out_of_range inside the noexcept is_valid_transform
Throws(raw) == regex_match(raw) /\ stoul_throws(Tail(raw))

\* transform without the statement m_position %= 100
transform_no_wrap(d, raw) ==
    IF d.terminated THEN d
    ELSE IF Throws(raw) THEN [d EXCEPT !.terminated = TRUE]
    ELSE LET t == is_valid_transform(raw)
         IN  IF t.is_valid
             THEN LET pz == d.passes_zero_count + zero_passes(d.position, t)
                      p  == d.position
                            + (IF t.direction THEN U32Mod100(t.size)
                                              ELSE 100 - U32Mod100(t.size))
                  IN  [d EXCEPT !.passes_zero_count = pz,
                                !.position = p,
                                !.zero_count = IF p = 0 THEN @ + 1 ELSE @]
             ELSE d

\* transform with the test m_position == 0 moved out of the is_valid branch
transform_counts_any(d, raw) ==
    IF d.terminated THEN d
    ELSE IF Throws(raw) THEN [d EXCEPT !.terminated = TRUE]
    ELSE LET t == is_valid_transform(raw)
             pz == IF t.is_valid THEN d.passes_zero_count + zero_passes(d.position, t)
                   ELSE d.passes_zero_count
             p  == IF t.is_valid
                   THEN (d.position
                         + (IF t.direction THEN U32Mod100(t.size)
                                           ELSE 100 - U32Mod100(t.size))) % 100
                   ELSE d.position
         IN  [d EXCEPT !.passes_zero_count = pz,
                       !.position = p,
                       !.zero_count = IF p = 0 THEN @ + 1 ELSE @]

transform(d, raw) ==
    IF d.terminated THEN d
    ELSE IF Throws(raw) THEN [d EXCEPT !.terminated = TRUE]
    ELSE LET t == is_valid_transform(raw)
         IN  IF t.is_valid
             THEN LET pz == d.passes_zero_count + zero_passes(d.position, t)
                      p  == (d.position
                             + (IF t.direction THEN U32Mod100(t.size)
                                               ELSE 100 - U32Mod100(t.size))) % 100
                  IN  [d EXCEPT !.passes_zero_count = pz,
                                !.position = p,
                                !.zero_count = IF p = 0 THEN @ + 1 ELSE @]
             ELSE d

\* transform(vector) leaving its loop at the first token that is not valid
RECURSIVE transform_vec_stops(_, _)
transform_vec_stops(d, raw_transforms) ==
    IF raw_transforms = <<>> \/ ~is_valid_transform(Head(raw_transforms)).is_valid THEN d
    ELSE transform_vec_stops(transform(d, Head(raw_transforms)), Tail(raw_transforms))

RECURSIVE transform_vec(_, _)
transform_vec(d, raw_transforms) ==
    IF raw_transforms = <<>> THEN d
    ELSE transform_vec(transform(d, Head(raw_transforms)), Tail(raw_transforms))

\* reset without the statement m_passes_zero_count = 0
reset_keeps_passes(d) == [d EXCEPT !.position = 50, !.zero_count = 0]

reset(d) == [d EXCEPT !.position = 50, !.zero_count = 0, !.passes_zero_count = 0]

----------------------------------------------------------------------------
(* Rotation tokens fed to the Dial.                                        *)

Tok(letter, n) == <<letter>> \o ToDigits(n)

\* const std::vector<std::string_view> transforms, verify()
transforms == <<Tok("L", 68), Tok("L", 30), Tok("R", 48), Tok("L", 5), Tok("R", 60),
                Tok("L", 55), Tok("L", 1), Tok("L", 99), Tok("R", 14), Tok("L", 82)>>

\* const std::vector<std::uint32_t> expected_positions, verify()
expected_positions == <<82, 52, 0, 95, 55, 0, 99, 0, 14, 32>>

\* 2^32, 2^32 + 100 and 2^64 in decimal
Pow32 == <<"4","2","9","4","9","6","7","2","9","6">>
Pow32Plus100 == <<"4","2","9","4","9","6","7","3","9","6">>
Pow64 == <<"1","8","4","4","6","7","4","4","0","7","3","7","0","9","5","5","1","6","1","6">>

SmallMagnitudes == (0..MaxMag) \cup {150, 200, 469, 899}

ValidTokens ==
    {transforms[k] : k \in 1..Len(transforms)}
    \cup {Tok(l, n) : l \in {"L", "R"}, n \in SmallMagnitudes}
    \cup {<<l>> \o ds : l \in {"L", "R"}, ds \in {Pow32, Pow32Plus100, Pow64}}
    \cup {<<"R", "0", "0", "7">>}

MalformedTokens ==
    { <<>>, <<"L">>, <<"R">>, <<"5">>, <<"X", "5">>, <<"l", "5">>, <<"L", "5", "x">>,
      <<"L", "-", "5">>, <<"L", " ", "5">>, <<" ", "L", "5">>, <<"R", "5", "\r">>,
      <<"L", "R", "5">>, <<"R", "1", ".", "5">> }

Tokens == ValidTokens \cup MalformedTokens

SeqTokens == {Tok("L", 50), Tok("R", 5), <<"X", "5">>, <<>>}

BoundedSeq(S, n) == UNION {[1..k -> S] : k \in 0..n}

SeqInputs == BoundedSeq(SeqTokens, MaxSeqLen)

----------------------------------------------------------------------------
(* History of the Dial, kept for the properties.                           *)

DialNow == [position |-> m_position, zero_count |-> m_zero_count,
            passes_zero_count |-> m_passes_zero_count, terminated |-> terminated]

\* the Dial after the first n tokens of raws, each given to transform(string_view) in turn
RECURSIVE ApplyEach(_, _, _)
ApplyEach(d, raws, n) == IF n = 0 THEN d ELSE transform(ApplyEach(d, raws, n - 1), raws[n])

\* the tokens of raws that are valid, were applied, and left the dial at 0
LandingsOf(d, raws) ==
    Cardinality({n \in 1..Len(raws) :
                    /\ regex_match(raws[n])
                    /\ ~ApplyEach(d, raws, n).terminated
                    /\ ApplyEach(d, raws, n).position = 0})

NextVi(v, raw) == IF v >= 0 /\ v < Len(transforms) /\ raw = transforms[v + 1] THEN v + 1 ELSE -1

RECURSIVE NextViSeq(_, _)
NextViSeq(v, raws) == IF raws = <<>> THEN v ELSE NextViSeq(NextVi(v, Head(raws)), Tail(raws))

----------------------------------------------------------------------------
(* Dial: initial state and member calls.                                   *)

NoCall == [op |-> "none", arg |-> <<>>, args |-> <<>>]

\* the calls explored: the run of verify()'s list to its end, and any call
\* while the two counters are small
CanCall ==
    /\ call = NoCall
    /\ ~terminated
    /\ \/ vi \in 1..(Len(transforms) - 1)
       \/ (m_zero_count <= MaxZero /\ m_passes_zero_count < MaxPasses)

Store(d) ==
    /\ m_position' = d.position
    /\ m_zero_count' = d.zero_count
    /\ m_passes_zero_count' = d.passes_zero_count
    /\ terminated' = d.terminated
    /\ ret' = IF d.terminated THEN 0 ELSE d.position

\* Dial::transform( const std::string_view )
Transform(raw) ==
    /\ CanCall
    /\ Store(transform(DialNow, raw))
    /\ call' = [op |-> "transform", arg |-> raw, args |-> <<>>]
    /\ old' = DialNow
    /\ landings' = landings + LandingsOf(DialNow, <<raw>>)
    /\ shadow' = transform(shadow, raw)
    /\ vi' = NextVi(vi, raw)
    /\ UNCHANGED <<was_reset, mapVars, bankVars>>

\* Dial::transform( const std::vector<std::string_view> & )
TransformVec(raws) ==
    /\ CanCall
    /\ Store(transform_vec(DialNow, raws))
    /\ call' = [op |-> "transform_vec", arg |-> <<>>, args |-> raws]
    /\ old' = DialNow
    /\ landings' = landings + LandingsOf(DialNow, raws)
    /\ shadow' = ApplyEach(shadow, raws, Len(raws))
    /\ vi' = NextViSeq(vi, raws)
    /\ UNCHANGED <<was_reset, mapVars, bankVars>>

\* Dial::reset()
Reset ==
    /\ call = NoCall
    /\ ~terminated
    /\ LET d == reset(DialNow)
       IN  /\ m_position' = d.position
           /\ m_zero_count' = d.zero_count
           /\ m_passes_zero_count' = d.passes_zero_count
    /\ call' = [op |-> "reset", arg |-> <<>>, args |-> <<>>]
    /\ old' = DialNow
    /\ landings' = 0
    /\ shadow' = Fresh
    /\ was_reset' = (was_reset \/ DialNow # Fresh)
    /\ vi' = 0
    /\ UNCHANGED <<terminated, ret, mapVars, bankVars>>

\* the caller drops the returned value and goes on to its next statement
Discard ==
    /\ call # NoCall
    /\ ~terminated
    /\ call' = NoCall
    /\ ret' = 0
    /\ old' = DialNow
    /\ UNCHANGED <<m_position, m_zero_count, m_passes_zero_count, terminated,
                   landings, shadow, was_reset, vi, mapVars, bankVars>>

NextDial ==
    \/ CanCall /\ \E raw \in Tokens : Transform(raw)
    \/ CanCall /\ \E raws \in SeqInputs : TransformVec(raws)
    \/ Reset
    \/ Discard

NoMapCall == [op |-> "none", i |-> 0, j |-> 0]

NoResult == [exc |-> "", b |-> FALSE, n |-> 0, reads |-> {}]

NoBankCall == [op |-> "none", k |-> 0]

\* unsigned long long{ 0 }
Zero == [hi |-> 0, lo |-> 0]

\* a freshly constructed Dial, and no Map and no Battery constructed yet
Init ==
    /\ m_position = 50
    /\ m_zero_count = 0
    /\ m_passes_zero_count = 0
    /\ terminated = FALSE
    /\ call = NoCall
    /\ ret = 0
    /\ old = Fresh
    /\ landings = 0
    /\ shadow = Fresh
    /\ was_reset = FALSE
    /\ vi = 0
    /\ m_width = 0
    /\ m_height = 0
    /\ m_map = <<>>
    /\ m_accessible_map = <<>>
    /\ m_accessible_paper = 0
    /\ map_data = <<>>
    /\ junk = {}
    /\ mstatus = "none"
    /\ mcall = NoMapCall
    /\ mret = NoResult
    /\ battery_N = 0
    /\ battery_input = <<>>
    /\ m_banks = <<>>
    /\ bstatus = "none"
    /\ bcall = NoBankCall
    /\ bret = Zero

\* the Dial program: a Dial and the calls made on it
Spec == Init /\ [][NextDial]_vars

----------------------------------------------------------------------------
(* What the dial is meant to do, stated without the code's arithmetic.      *)

\* one letter L or R followed by one or more decimal digits
WellFormed(raw) ==
    \E k \in 1..Len(raw) :
        /\ k = 1
        /\ raw[k] \in {"L", "R"}
        /\ Len(raw) > k
        /\ \A n \in (k + 1)..Len(raw) : raw[n] \in DigitChars

Clockwise(raw) == raw[1] = "R"

Magnitude(raw) == StripZeros(Tail(raw))

RECURSIVE DecimalValue(_)
DecimalValue(ds) == IF ds = <<>> THEN 0
                    ELSE 10 * DecimalValue(SubSeq(ds, 1, Len(ds) - 1)) + DigitVal(ds[Len(ds)])

\* the magnitude m as the pair (m div 100, m mod 100), read off its decimal digits
MagDiv100(raw) == LET ds == Magnitude(raw)
                  IN  IF Len(ds) <= 2 THEN 0 ELSE DecimalValue(SubSeq(ds, 1, Len(ds) - 2))

MagMod100(raw) == LET ds == Magnitude(raw)
                  IN  IF Len(ds) <= 2 THEN DecimalValue(ds)
                      ELSE DecimalValue(SubSeq(ds, Len(ds) - 1, Len(ds)))

\* where the dial points after k single clicks from p
StepPos(p, clockwise, k) == IF clockwise THEN (p + k) % 100 ELSE (p + 100 * k - k) % 100

\* the clicks k in 1..m at which the dial points at 0
ClicksAtZero(p, clockwise, m) == Cardinality({k \in 1..m : StepPos(p, clockwise, k) = 0})

\* the same count for the magnitude of a token: the clicks are counted one by
\* one up to 999; above that the m div 100 full turns, each of which points at
\* 0 once and comes back to p, are counted apart from the last m mod 100 clicks
Clicks(p, raw) ==
    IF Len(Magnitude(raw)) <= 3
    THEN ClicksAtZero(p, Clockwise(raw), DecimalValue(Magnitude(raw)))
    ELSE MagDiv100(raw) + ClicksAtZero(p, Clockwise(raw), MagMod100(raw))

\* (p + m) mod 100 clockwise, (p - m) mod 100 in [0, 100) counterclockwise
Rotated(p, raw) == IF Clockwise(raw) THEN (p + MagMod100(raw)) % 100
                   ELSE (p + 100 - MagMod100(raw)) % 100

----------------------------------------------------------------------------
(* Properties of the Dial.                                                 *)

\* C1: the amount one valid rotation adds to zero_pass_count is the number of
\* single clicks k in 1..m at which the dial points at 0, for every start
\* position, direction and magnitude; from 0 a rotation of 469 adds 4.
C1_PassesAreClicksAtZero ==
    (call.op = "transform" /\ WellFormed(call.arg)) =>
        /\ ~terminated
        /\ m_passes_zero_count - old.passes_zero_count = Clicks(old.position, call.arg)
        /\ (old.position = 0 /\ Magnitude(call.arg) = <<"4", "6", "9">>) =>
               m_passes_zero_count - old.passes_zero_count = 4

\* C2: transform(token) of a valid token leaves the position at (p + m) mod 100
\* for R<m> and at (p - m) mod 100 for L<m>, and returns that position.
C2_PositionIsRotated ==
    (call.op = "transform" /\ WellFormed(call.arg)) =>
        /\ ~terminated
        /\ m_position = Rotated(old.position, call.arg)
        /\ ret = m_position

\* C3: from a fresh Dial, after any sequence of rotation tokens given to
\* transform, the position lies in [0, 100) in every state.
C3_PositionInRange == m_position \in 0..99

C3_Witness ==
    /\ call.op = "transform"
    /\ call.arg = Tok("R", 899)
    /\ old.position = 50
    /\ m_position = 49

\* C4: zero_count() is the number of valid tokens after whose application the
\* position was exactly 0; verify()'s ten tokens give the expected positions
\* and a final count of 3.
C4_ZeroCountIsLandings ==
    /\ m_zero_count = landings
    /\ vi >= 1 => m_position = expected_positions[vi]
    /\ vi = Len(transforms) => m_zero_count = 3

C4_Witness == vi = Len(transforms) /\ landings = 3

\* C5: a malformed token leaves position and both counters unchanged, raises
\* nothing and returns the unchanged position, also when the position is 0.
C5_MalformedIsIgnored ==
    (call.op = "transform" /\ ~WellFormed(call.arg)) =>
        /\ ~terminated
        /\ DialNow = old
        /\ ret = old.position

C5_Witness ==
    /\ call.op = "transform"
    /\ call.arg = <<"X", "5">>
    /\ old.position = 0
    /\ old.zero_count = 1
    /\ m_zero_count = 1

\* C6: transform(vector) attempts every token in order: its result is that of
\* transform(token) called on each token in turn, and it returns the final position.
C6_VectorIsEachInTurn ==
    call.op = "transform_vec" =>
        /\ DialNow = ApplyEach(old, call.args, Len(call.args))
        /\ ret = m_position

C6_Witness ==
    /\ call.op = "transform_vec"
    /\ Len(call.args) = 2
    /\ ~WellFormed(call.args[1])
    /\ WellFormed(call.args[2])
    /\ m_position # old.position

\* C7: reset() sets the position to 50 and both counters to 0, and the tokens
\* applied after it give what they give on a freshly constructed Dial.
C7_ResetIsFresh ==
    /\ call.op = "reset" => DialNow = Fresh
    /\ DialNow = shadow

C7_Witness ==
    /\ was_reset
    /\ call.op = "transform"
    /\ WellFormed(call.arg)
    /\ m_passes_zero_count > 0

----------------------------------------------------------------------------
(* class Map.                                                              *)

\* std::isspace in the "C" locale
isspace(c) == c \in {" ", "\n", "\r", "\t"}

\* std::views::split( '\n' ): the pieces of the text between newlines
RECURSIVE split(_)
split(t) ==
    IF t = <<>> THEN <<>>
    ELSE IF \A n \in 1..Len(t) : t[n] # "\n" THEN <<t>>
    ELSE LET k == CHOOSE n \in 1..Len(t) : t[n] = "\n" /\ \A q \in 1..(n - 1) : t[q] # "\n"
         IN  <<SubSeq(t, 1, k - 1)>> \o split(SubSeq(t, k + 1, Len(t)))

NonEmpty(piece) == piece # <<>>

\* measure_dimensions without the assert "Map line lengths must be constant."
measure_dimensions_any_lengths(unprocessed_map) ==
    LET last_char_newline == unprocessed_map[Len(unprocessed_map)] = "\n"
        height == Cardinality({n \in 1..Len(unprocessed_map) : isspace(unprocessed_map[n])})
                  + (IF last_char_newline THEN 0 ELSE 1)
        pieces == SelectSeq(split(unprocessed_map), NonEmpty)
        line_lengths == [n \in 1..Len(pieces) |-> Len(pieces[n])]
    IN  [ok     |-> height > 0 /\ line_lengths # <<>>,
         width  |-> IF line_lengths = <<>> THEN 0 ELSE line_lengths[1],
         height |-> height]

\* the pair returned, and whether the three asserts held
measure_dimensions(unprocessed_map) ==
    LET last_char_newline == unprocessed_map[Len(unprocessed_map)] = "\n"
        height == Cardinality({n \in 1..Len(unprocessed_map) : isspace(unprocessed_map[n])})
                  + (IF last_char_newline THEN 0 ELSE 1)
        pieces == SelectSeq(split(unprocessed_map), NonEmpty)
        line_lengths == [n \in 1..Len(pieces) |-> Len(pieces[n])]
    IN  [ok     |-> /\ height > 0
                    /\ line_lengths # <<>>
                    /\ \A n \in 1..(Len(line_lengths) - 1) : line_lengths[n] = line_lengths[n + 1],
         width  |-> IF line_lengths = <<>> THEN 0 ELSE line_lengths[1],
         height |-> height]

ObjTypeOf(c) == IF c = "." THEN "NONE" ELSE IF c = "@" THEN "PAPER" ELSE "INVALID"

NotSpace(c) == ~isspace(c)

\* the vector returned, and whether the assert held
initialise_map(width, height, map_data_) ==
    LET chars == SelectSeq(map_data_, NotSpace)
        map   == [n \in 1..Len(chars) |-> ObjTypeOf(chars[n])]
    IN  [ok |-> Len(map) = width * height, map |-> map]

\* the eight positions 0..7 of the comment in is_accessible_paper, as (di, dj)
Offsets == << <<-1, -1>>, <<0, -1>>, <<1, -1>>, <<-1, 0>>, <<1, 0>>, <<-1, 1>>, <<0, 1>>, <<1, 1>> >>

RECURSIVE Pow2(_)
Pow2(n) == IF n = 0 THEN 1 ELSE 2 * Pow2(n - 1)

\* std::bitset<8> b{ v }: the positions of the low eight bits of v that are set
bitset8(v) == {k \in 0..7 : (v \div Pow2(k)) % 2 = 1}

\* std::bitset<8> valid_position_mask{ 11111111 }
MaskLiteral == 11111111

\* the positions the border checks flag as false
BorderCleared(width, height, i, j) ==
    (IF i = 0 THEN {0, 3, 5} ELSE IF i = width - 1 THEN {2, 4, 7} ELSE {})
    \cup (IF j = 0 THEN {0, 1, 2} ELSE IF j = height - 1 THEN {5, 6, 7} ELSE {})

\* the positions still flagged after the border checks: the ones is_paper is called for
Flagged(width, height, i, j) == bitset8(MaskLiteral) \ BorderCleared(width, height, i, j)

\* Map::operator[]: the index j * m_width + i, from 0
IndexOf(width, i, j) == j * width + i

NeighbourIndex(width, i, j, k) == IndexOf(width, i + Offsets[k + 1][1], j + Offsets[k + 1][2])

\* the coordinates is_accessible_paper( i, j ) hands to is_paper
NeighbourCoordinates(width, height, i, j) ==
    {<<i + Offsets[k + 1][1], j + Offsets[k + 1][2]>> : k \in Flagged(width, height, i, j)}

\* m_map[index] == ObjType::PAPER, read without a bounds check
ReadsPaper(map, junk_, index) ==
    IF index < Len(map) THEN map[index + 1] = "PAPER" ELSE index \in junk_

is_paper(width, map, junk_, i, j) == ReadsPaper(map, junk_, IndexOf(width, i, j))

\* Map::at without the test i >= m_width
at_throws_rows_only(width, height, map, i, j) ==
    j >= height \/ IndexOf(width, i, j) >= Len(map)

\* Map::at: throws std::out_of_range
at_throws(width, height, map, i, j) ==
    i >= width \/ j >= height \/ IndexOf(width, i, j) >= Len(map)

\* is_accessible_paper without the early return for a cell that holds no roll
is_accessible_paper_unchecked(width, height, map, junk_, i, j) ==
    Cardinality({k \in Flagged(width, height, i, j) :
                    ReadsPaper(map, junk_, NeighbourIndex(width, i, j, k))}) < 4

\* the value is_accessible_paper returns when at( i, j ) does not throw
is_accessible_paper(width, height, map, junk_, i, j) ==
    IF map[IndexOf(width, i, j) + 1] # "PAPER" THEN FALSE
    ELSE Cardinality({k \in Flagged(width, height, i, j) :
                         ReadsPaper(map, junk_, NeighbourIndex(width, i, j, k))}) < 4

\* the indices past the end of m_map that is_accessible_paper( i, j ) reads
PastEndReads(width, height, map, i, j) ==
    IF map[IndexOf(width, i, j) + 1] # "PAPER" THEN {}
    ELSE {NeighbourIndex(width, i, j, k) : k \in Flagged(width, height, i, j)}
         \ (0..(Len(map) - 1))

\* the indices of m_map that is_accessible_paper( i, j ) reads when at( i, j ) does not throw
ScanReads(width, height, map, i, j) ==
    {IndexOf(width, i, j)}
    \cup (IF map[IndexOf(width, i, j) + 1] # "PAPER" THEN {}
          ELSE {NeighbourIndex(width, i, j, k) : k \in Flagged(width, height, i, j)})

\* the cells process_map visits
Cells(width, height) == (0..(width - 1)) \X (0..(height - 1))

\* process_map leaving the resized vector's value in the cells that are not accessible
process_map_drops_base(width, height, map, junk_) ==
    [n \in 1..Len(map) |->
        LET i == (n - 1) % width
            j == (n - 1) \div width
        IN  IF j < height /\ is_accessible_paper(width, height, map, junk_, i, j)
            THEN "ACCESSIBLE_PAPER" ELSE "NONE"]

process_map(width, height, map, junk_) ==
    [n \in 1..Len(map) |->
        LET i == (n - 1) % width
            j == (n - 1) \div width
        IN  IF j < height /\ is_accessible_paper(width, height, map, junk_, i, j)
            THEN "ACCESSIBLE_PAPER" ELSE map[n]]

\* the fold_left counting every cell that holds a roll, accessible or not
count_marked(accessible_map) ==
    Cardinality({n \in 1..Len(accessible_map) :
                    accessible_map[n] \in {"PAPER", "ACCESSIBLE_PAPER"}})

\* the fold_left of the constructor
count_accessible(accessible_map) ==
    Cardinality({n \in 1..Len(accessible_map) : accessible_map[n] = "ACCESSIBLE_PAPER"})

----------------------------------------------------------------------------
(* Texts a Map is constructed from.                                        *)

\* the text of a width x height grid: each row followed by a newline
RECURSIVE GridText(_, _, _)
GridText(width, height, cells) ==
    IF height = 0 THEN <<>>
    ELSE GridText(width, height - 1, cells)
         \o [x \in 1..width |-> cells[(height - 1) * width + x]] \o <<"\n">>

Shapes == {wh \in (1..MaxSide) \X (1..MaxSide) : wh[1] * wh[2] <= MaxCells}

GridTexts == UNION {{GridText(wh[1], wh[2], cells) : cells \in [1..(wh[1] * wh[2]) -> {".", "@"}]}
                    : wh \in Shapes}

test_input ==
       <<".", ".", "@", "@", ".", "@", "@", "@", "@", ".">> \o <<"\n">>
    \o <<"@", "@", "@", ".", "@", ".", "@", ".", "@", "@">> \o <<"\n">>
    \o <<"@", "@", "@", "@", "@", ".", "@", ".", "@", "@">> \o <<"\n">>
    \o <<"@", ".", "@", "@", "@", "@", ".", ".", "@", ".">> \o <<"\n">>
    \o <<"@", "@", ".", "@", "@", "@", "@", ".", "@", "@">> \o <<"\n">>
    \o <<".", "@", "@", "@", "@", "@", "@", "@", ".", "@">> \o <<"\n">>
    \o <<".", "@", ".", "@", ".", "@", ".", "@", "@", "@">> \o <<"\n">>
    \o <<"@", ".", "@", "@", "@", ".", "@", "@", "@", "@">> \o <<"\n">>
    \o <<".", "@", "@", "@", "@", "@", "@", "@", "@", ".">> \o <<"\n">>
    \o <<"@", ".", "@", ".", "@", "@", "@", ".", "@", ".">> \o <<"\n">>

test_accessible_paper_rolls ==
       <<".", ".", "x", "x", ".", "x", "x", "@", "x", ".">> \o <<"\n">>
    \o <<"x", "@", "@", ".", "@", ".", "@", ".", "@", "@">> \o <<"\n">>
    \o <<"@", "@", "@", "@", "@", ".", "x", ".", "@", "@">> \o <<"\n">>
    \o <<"@", ".", "@", "@", "@", "@", ".", ".", "@", ".">> \o <<"\n">>
    \o <<"x", "@", ".", "@", "@", "@", "@", ".", "@", "x">> \o <<"\n">>
    \o <<".", "@", "@", "@", "@", "@", "@", "@", ".", "@">> \o <<"\n">>
    \o <<".", "@", ".", "@", ".", "@", ".", "@", "@", "@">> \o <<"\n">>
    \o <<"x", ".", "@", "@", "@", ".", "@", "@", "@", "@">> \o <<"\n">>
    \o <<".", "@", "@", "@", "@", "@", "@", "@", "@", ".">> \o <<"\n">>
    \o <<"x", ".", "x", ".", "@", "@", "@", ".", "x", ".">> \o <<"\n">>

test_result_1 == 13

\* a grid whose last row has no newline after it
NoFinalNewline == <<"@", "@", "\n", "@", "@">>

\* the rows of '.' and '@' of one length
RowsOfLength(n) == [1..n -> {".", "@"}]

\* two rows of different lengths, and three rows of which one differs; in the
\* three-row texts the characters are as many as first length times rows
RaggedTexts ==
    UNION {{r1 \o <<"\n">> \o r2 \o <<"\n">> : r1 \in RowsOfLength(ab[1]), r2 \in RowsOfLength(ab[2])}
           : ab \in {ab \in (1..3) \X (1..3) : ab[1] # ab[2]}}
    \cup { <<"@", "@", "\n", "@", "\n", "@", "@", "@", "\n">>,
           <<"@", "@", "\n", ".", ".", ".", "\n", "@", "\n">>,
           <<".", ".", "\n", "\n", "@", "@", "@", "@", "\n">>,
           <<"@", "@", "\n", "@", "@", "\n", "@", "\n">>,
           <<"@", "@", "\n", "@">>,
           <<"@", "@", "\r", "\n", "@", "\r", "\n">> }

\* grids with a character that is neither '.', '@' nor whitespace
InvalidTexts ==
    { <<"x", "\n">>,
      <<"@", "x", "\n", "@", "@", "\n">>,
      <<"@", "@", "\n", "@", "#", "\n">>,
      <<".", "O", ".", "\n", "@", "@", "@", "\n">>,
      <<"@", "@", "\n", "@", "@", "\n", "x", "\n">>,
      <<"@", "@", "\n", "x", "x", "\n">> }

\* the whitespace put after the last row of a block
Trailings ==
    { <<>>, <<"\n">>, <<"\n", "\n">>, <<"\n", "\n", "\n">>, <<" ">>, <<" ", "\n">>,
      <<"\r">>, <<"\r", "\n">>, <<"\n", " ">>, <<"\t">> }

\* blocks of equal rows with no whitespace after the last row
Blocks ==
    { <<"@", "@", "\n", "@", "@">>,
      <<"@", ".", "\n", ".", "@">>,
      <<"@", "@", "@", "\n", "@", "@", "@">>,
      <<"@", "@", "\n", "@", "@", "\n", ".", "@">>,
      <<"@", "@">>,
      <<".">> }

TrailingTexts == {block \o ws : block \in Blocks, ws \in Trailings}

MapTexts == GridTexts \cup {test_input, NoFinalNewline}
            \cup RaggedTexts \cup InvalidTexts \cup TrailingTexts

----------------------------------------------------------------------------
(* Map: construction and member calls.                                     *)

Aborted ==
    /\ mstatus' = "aborted"
    /\ UNCHANGED <<m_width, m_height, m_map, m_accessible_map, m_accessible_paper, junk>>

\* Map::Map( const std::string_view ), built with the asserts enabled
Construct(text) ==
    /\ mstatus = "none"
    /\ map_data' = text
    /\ mcall' = [op |-> "Map", i |-> 0, j |-> 0]
    /\ mret' = NoResult
    /\ LET dimensions == measure_dimensions(text)
           built      == initialise_map(dimensions.width, dimensions.height, text)
       IN  IF ~dimensions.ok \/ ~built.ok
           THEN Aborted
           ELSE LET past == UNION {PastEndReads(dimensions.width, dimensions.height, built.map,
                                                c[1], c[2])
                                   : c \in Cells(dimensions.width, dimensions.height)}
                IN  \/ /\ past # {}
                       /\ Aborted
                    \/ \E read_as_paper \in SUBSET past :
                          LET accessible_map == process_map(dimensions.width, dimensions.height,
                                                            built.map, read_as_paper)
                          IN  /\ mstatus' = "ok"
                              /\ m_width' = dimensions.width
                              /\ m_height' = dimensions.height
                              /\ m_map' = built.map
                              /\ junk' = read_as_paper
                              /\ m_accessible_map' = accessible_map
                              /\ m_accessible_paper' = count_accessible(accessible_map)
    /\ UNCHANGED <<dialVars, bankVars>>

CanQuery == mstatus = "ok" /\ mcall = NoMapCall

MapFrame == UNCHANGED <<m_width, m_height, m_map, m_accessible_map, m_accessible_paper,
                        map_data, junk, dialVars, bankVars>>

\* Map::is_accessible_paper( i, j )
IsAccessiblePaper(i, j) ==
    /\ CanQuery
    /\ mcall' = [op |-> "is_accessible_paper", i |-> i, j |-> j]
    /\ IF at_throws(m_width, m_height, m_map, i, j)
       THEN /\ mret' = [NoResult EXCEPT !.exc = "out_of_range"]
            /\ mstatus' = mstatus
       ELSE \/ /\ PastEndReads(m_width, m_height, m_map, i, j) # {}
               /\ mstatus' = "aborted"
               /\ mret' = [NoResult EXCEPT !.reads = ScanReads(m_width, m_height, m_map, i, j)]
            \/ /\ mstatus' = mstatus
               /\ mret' = [NoResult EXCEPT
                              !.b = is_accessible_paper(m_width, m_height, m_map, junk, i, j),
                              !.reads = ScanReads(m_width, m_height, m_map, i, j)]
    /\ MapFrame

\* Map::is_paper( i, j )
IsPaper(i, j) ==
    /\ CanQuery
    /\ mcall' = [op |-> "is_paper", i |-> i, j |-> j]
    /\ IF IndexOf(m_width, i, j) < Len(m_map)
       THEN /\ mret' = [NoResult EXCEPT !.b = is_paper(m_width, m_map, junk, i, j),
                                         !.reads = {IndexOf(m_width, i, j)}]
            /\ mstatus' = mstatus
       ELSE \/ /\ mstatus' = "aborted"
               /\ mret' = [NoResult EXCEPT !.reads = {IndexOf(m_width, i, j)}]
            \/ /\ mstatus' = mstatus
               /\ \E b \in (IF IndexOf(m_width, i, j) \in junk THEN {TRUE} ELSE BOOLEAN) :
                      mret' = [NoResult EXCEPT !.b = b, !.reads = {IndexOf(m_width, i, j)}]
    /\ MapFrame

\* Map::accessible_paper()
AccessiblePaper ==
    /\ CanQuery
    /\ mcall' = [op |-> "accessible_paper", i |-> 0, j |-> 0]
    /\ mret' = [NoResult EXCEPT !.n = m_accessible_paper]
    /\ mstatus' = mstatus
    /\ MapFrame

\* the caller has used the outcome and goes on to its next statement
MapDiscard ==
    /\ mstatus = "ok"
    /\ mcall # NoMapCall
    /\ mcall' = NoMapCall
    /\ mret' = NoResult
    /\ mstatus' = mstatus
    /\ MapFrame

NextMap ==
    \/ mstatus = "none" /\ \E text \in MapTexts : Construct(text)
    \/ CanQuery /\ \E i \in 0..m_width, j \in 0..m_height : IsAccessiblePaper(i, j)
    \/ CanQuery /\ \E i \in 0..m_width, j \in 0..m_height : IsPaper(i, j)
    \/ AccessiblePaper
    \/ MapDiscard

\* the Map program: a Map constructed from a text and the calls made on it
SpecMap == Init /\ [][NextMap]_vars

----------------------------------------------------------------------------
(* What the scan is meant to compute, stated on the cells of the grid.      *)

Marked(x, y) == m_map[y * m_width + x + 1] = "PAPER"

Near(a, b) == a - b \in {-1, 0, 1}

\* the cells of the grid next to (x, y): left, right, up, down and the four diagonals
MooreNeighbours(x, y) ==
    {c \in Cells(m_width, m_height) : c # <<x, y>> /\ Near(c[1], x) /\ Near(c[2], y)}

MarkedNeighbours(x, y) == {c \in MooreNeighbours(x, y) : Marked(c[1], c[2])}

MeantAccessible(x, y) == Marked(x, y) /\ Cardinality(MarkedNeighbours(x, y)) < 4

\* the cells for which is_accessible_paper returns true
AccessibleCells ==
    {c \in Cells(m_width, m_height) :
        is_accessible_paper(m_width, m_height, m_map, junk, c[1], c[2])}

DiagramCells == SelectSeq(test_accessible_paper_rolls, NotSpace)

----------------------------------------------------------------------------
(* Properties of the Map.                                                  *)

\* C8: for every in-bounds (x, y) of a well-formed grid, is_accessible_paper
\* returns true exactly when the cell is marked and fewer than 4 of its
\* in-bounds Moore neighbours are marked.
C8_AccessibleIffFewMarkedNeighbours ==
    (/\ mstatus = "ok"
     /\ mcall.op = "is_accessible_paper"
     /\ mcall.i < m_width
     /\ mcall.j < m_height) =>
        /\ mret.exc = ""
        /\ mret.b = MeantAccessible(mcall.i, mcall.j)

\* C9: the Map of test_input has accessible_paper() = 13 and its accessible
\* cells are the cells drawn 'x' in test_accessible_paper_rolls.
C9_TestGridGives13 ==
    (mstatus = "ok" /\ map_data = test_input) =>
        /\ m_accessible_paper = test_result_1
        /\ \A n \in 1..Len(m_accessible_map) :
               (m_accessible_map[n] = "ACCESSIBLE_PAPER") <=> (DiagramCells[n] = "x")

\* C10: accessible_paper() is the number of in-bounds cells for which
\* is_accessible_paper returns true, each counted once; it is computed at
\* construction and every later call returns it.
C10_CountIsAccessibleCells ==
    mstatus = "ok" =>
        /\ m_accessible_paper = Cardinality(AccessibleCells)
        /\ mcall.op = "accessible_paper" => mret.n = m_accessible_paper

C10_Witness ==
    /\ mstatus = "ok"
    /\ mcall.op = "accessible_paper"
    /\ mret.n >= 2
    /\ \E n \in 1..Len(m_accessible_map) : m_accessible_map[n] = "PAPER"

C12_IsPaperOutOfRange ==
    (/\ mcall.op = "is_paper"
     /\ (mcall.i >= m_width \/ mcall.j >= m_height)) =>
        /\ mstatus = "ok"
        /\ mret.exc = "out_of_range"
        /\ mret.reads = {}

\* C13: for every (x, y) with x >= width or y >= height, is_accessible_paper(x, y)
\* fails with out_of_range before it examines any neighbour; the coordinate is
\* never clamped to a cell of the grid.
C13_IsAccessibleOutOfRange ==
    (/\ mcall.op = "is_accessible_paper"
     /\ (mcall.i >= m_width \/ mcall.j >= m_height)) =>
        /\ mstatus = "ok"
        /\ mret.exc = "out_of_range"
        /\ mret.b = FALSE
        /\ mret.reads = {}

\* x = width is asked on a grid whose unchecked index y * width + x holds a roll
C13_Witness ==
    /\ mstatus = "ok"
    /\ mcall.op = "is_accessible_paper"
    /\ mcall.i = m_width
    /\ mcall.j < m_height
    /\ IndexOf(m_width, mcall.i, mcall.j) < Len(m_map)
    /\ m_map[IndexOf(m_width, mcall.i, mcall.j) + 1] = "PAPER"
    /\ mret.exc = "out_of_range"

----------------------------------------------------------------------------
(* Properties of the construction of a Map from raw text.                  *)

\* the non-empty rows of a text: what stands between its newlines
TextRows(text) == SelectSeq(split(text), NonEmpty)

UnequalRows(text) ==
    \E a, b \in 1..Len(TextRows(text)) : Len(TextRows(text)[a]) # Len(TextRows(text)[b])

NothingBuilt ==
    /\ mstatus = "aborted"
    /\ m_width = 0
    /\ m_height = 0
    /\ m_map = <<>>
    /\ m_accessible_map = <<>>

\* C14: constructing a Map from a text in which two non-empty rows have
\* different lengths fails (the program is stopped by the assert) and no Map
\* with a width, a height or a cell array is produced.
C14_UnequalRowsRejected ==
    (mstatus # "none" /\ UnequalRows(map_data)) => NothingBuilt

\* rows of 2, 1 and 3 characters: as many characters as 2 columns times 3 rows
C14_Witness ==
    /\ map_data = <<"@", "@", "\n", "@", "\n", "@", "@", "@", "\n">>
    /\ mcall.op = "Map"
    /\ NothingBuilt

HasInvalidChar(text) ==
    \E n \in 1..Len(text) : ~isspace(text[n]) /\ text[n] \notin {".", "@"}

\* C15: constructing a Map from a text with a non-whitespace character other
\* than '.' and '@' fails; no constructed Map holds an INVALID cell.
C15_InvalidCharRejected ==
    /\ (mstatus # "none" /\ HasInvalidChar(map_data)) => NothingBuilt
    /\ mstatus = "ok" => \A n \in 1..Len(m_map) : m_map[n] # "INVALID"

RECURSIVE StripTrailing(_)
StripTrailing(text) ==
    IF text # <<>> /\ isspace(text[Len(text)])
    THEN StripTrailing(SubSeq(text, 1, Len(text) - 1)) ELSE text

\* one or more rows of '.' and '@', all of one length, with a newline between them
IsBlock(block) ==
    /\ block # <<>>
    /\ \A n \in 1..Len(block) : block[n] \in {".", "@", "\n"}
    /\ \A n \in 1..Len(split(block)) :
           split(block)[n] # <<>> /\ Len(split(block)[n]) = Len(split(block)[1])

BlockWidth(block) == Len(split(block)[1])

BlockHeight(block) == Len(split(block))

BlockCells(block) ==
    LET chars == SelectSeq(block, NotSpace)
    IN  [n \in 1..Len(chars) |-> IF chars[n] = "@" THEN "PAPER" ELSE "NONE"]

\* C16: a well-formed block followed by any amount of trailing whitespace
\* parses to what the block alone parses to: the same width, height, cell
\* array and accessible count (construction is stopped only where the scan
\* of the block alone can be).
C16_TrailingWhitespaceIgnored ==
    LET block == StripTrailing(map_data)
    IN  (mstatus # "none" /\ IsBlock(block)) =>
            /\ (mcall.op = "Map" /\ mstatus = "aborted") =>
                   \E c \in Cells(BlockWidth(block), BlockHeight(block)) :
                       PastEndReads(BlockWidth(block), BlockHeight(block), BlockCells(block),
                                    c[1], c[2]) # {}
            /\ ~(mcall.op = "Map" /\ mstatus = "aborted") =>
                   /\ m_width = BlockWidth(block)
                   /\ m_height = BlockHeight(block)
                   /\ m_map = BlockCells(block)
                   /\ m_accessible_paper =
                          count_accessible(process_map(BlockWidth(block), BlockHeight(block),
                                                       BlockCells(block), junk))

----------------------------------------------------------------------------
(* class Bank<N> and class Battery<N>.                                     *)

\* banks of every length from 2 to this one are among the inputs
MaxBankLen == 5
\* N ranges over 2..MaxN, and 12
MaxN == 4

Mega == 1000000

\* unsigned long long addition
BigAdd(a, b) == [hi |-> a.hi + b.hi + (a.lo + b.lo) \div Mega, lo |-> (a.lo + b.lo) % Mega]

\* the product of a joltage digit and a value
BigScale(d, a) == [hi |-> d * a.hi + (d * a.lo) \div Mega, lo |-> (d * a.lo) % Mega]

RECURSIVE Pow10(_)
Pow10(k) == IF k = 0 THEN 1 ELSE 10 * Pow10(k - 1)

\* static_cast<unsigned long long>( std::pow( 10, k ) ), exact for the exponents 0..11 used
pow10_ull(k) == IF k < 6 THEN [hi |-> 0, lo |-> Pow10(k)] ELSE [hi |-> Pow10(k - 6), lo |-> 0]

\* max_element returning the last of several equal greatest elements
max_element_last(joltages, first, last) ==
    IF first = last THEN last
    ELSE CHOOSE k \in first..(last - 1) :
             /\ \A q \in first..(last - 1) : joltages[q + 1] <= joltages[k + 1]
             /\ \A q \in (k + 1)..(last - 1) : joltages[q + 1] < joltages[k + 1]

\* std::max_element over the positions [first, last), counted from 0: the first greatest element
max_element(joltages, first, last) ==
    IF first = last THEN last
    ELSE CHOOSE k \in first..(last - 1) :
             /\ \A q \in first..(last - 1) : joltages[q + 1] <= joltages[k + 1]
             /\ \A q \in first..(k - 1) : joltages[q + 1] < joltages[k + 1]

\* the while loop of process_joltages and the statement after it
RECURSIVE joltage_loop(_, _, _, _, _)
joltage_loop(joltages, first_it, end_pos, first_time, joltage) ==
    IF first_it # Len(joltages) /\ (end_pos # Len(joltages) \/ first_time)
    THEN IF first_it = end_pos THEN [ok |-> FALSE, joltage |-> joltage]
         ELSE joltage_loop(joltages,
                           max_element(joltages, first_it + 1, end_pos + 1),
                           end_pos + 1,
                           FALSE,
                           BigAdd(joltage, BigScale(joltages[first_it + 1],
                                                    pow10_ull(Len(joltages) - end_pos))))
    ELSE [ok |-> TRUE, joltage |-> BigAdd(joltage, [hi |-> 0, lo |-> joltages[first_it + 1]])]

\* Bank<N>::process_joltages: the joltage, and whether the asserts held
process_joltages(N, joltages) ==
    IF ~(N < Len(joltages)) THEN [ok |-> FALSE, joltage |-> Zero]
    ELSE LET end_pos == Len(joltages) - N + 1
         IN  joltage_loop(joltages, max_element(joltages, 0, end_pos), end_pos, TRUE, Zero)

\* Bank<N>::Bank( std::string_view ): each character minus '0'
Bank(N, unprocessed_input) ==
    process_joltages(N, [k \in 1..Len(unprocessed_input) |-> DigitVal(unprocessed_input[k])])

\* Battery<N>::joltage: std::accumulate over m_banks
RECURSIVE accumulate(_)
accumulate(banks) ==
    IF banks = <<>> THEN Zero
    ELSE BigAdd(accumulate(SubSeq(banks, 1, Len(banks) - 1)), banks[Len(banks)])

\* the four rows of test_input
test_banks ==
    << <<"9","8","7","6","5","4","3","2","1","1","1","1","1","1","1">>,
       <<"8","1","1","1","1","1","1","1","1","1","1","1","1","1","9">>,
       <<"2","3","4","2","3","4","2","3","4","2","3","4","2","7","8">>,
       <<"8","1","8","1","8","1","9","1","1","1","1","2","1","1","1">> >>

test_bank_joltages_1 == <<98, 89, 78, 92>>

test_joltage_sum_1 == 357

test_bank_joltages_2 ==
    << [hi |-> 987654, lo |-> 321111], [hi |-> 811111, lo |-> 111119],
       [hi |-> 434234, lo |-> 234278], [hi |-> 888911, lo |-> 112111] >>

test_joltage_sum_2 == [hi |-> 3121910, lo |-> 778619]

\* the digits the short banks are written with
BankDigits == {"0", "1", "5", "9"}

BankRows == UNION {[1..n -> BankDigits] : n \in 2..MaxBankLen}

ShortRows == [1..3 -> {"1", "5", "9"}]

\* one bank of any row, two banks of short rows, and the test's four banks
BatteryInputs ==
    {<<row>> : row \in BankRows}
    \cup {<<a, b>> : a \in ShortRows, b \in ShortRows}
    \cup {test_banks}

BatteryNs == (2..MaxN) \cup {12}

\* Battery<N>::Battery( const std::vector<std::string_view> & )
ConstructBattery(N, unprocessed_input) ==
    /\ bstatus = "none"
    /\ battery_N' = N
    /\ battery_input' = unprocessed_input
    /\ bcall' = [op |-> "Battery", k |-> 0]
    /\ bret' = Zero
    /\ LET banks == [k \in 1..Len(unprocessed_input) |-> Bank(N, unprocessed_input[k])]
       IN  IF \A k \in 1..Len(banks) : banks[k].ok
           THEN /\ bstatus' = "ok"
                /\ m_banks' = [k \in 1..Len(banks) |-> banks[k].joltage]
           ELSE /\ bstatus' = "aborted"
                /\ m_banks' = <<>>
    /\ UNCHANGED <<dialVars, mapVars>>

CanAskBattery == bstatus = "ok" /\ bcall = NoBankCall

\* Battery<N>::joltage()
BatteryJoltage ==
    /\ CanAskBattery
    /\ bcall' = [op |-> "joltage", k |-> 0]
    /\ bret' = accumulate(m_banks)
    /\ UNCHANGED <<battery_N, battery_input, m_banks, bstatus, dialVars, mapVars>>

\* banks()[k - 1].joltage()
BankJoltage(k) ==
    /\ CanAskBattery
    /\ k \in 1..Len(m_banks)
    /\ bcall' = [op |-> "bank_joltage", k |-> k]
    /\ bret' = m_banks[k]
    /\ UNCHANGED <<battery_N, battery_input, m_banks, bstatus, dialVars, mapVars>>

\* the caller has used the value and goes on to its next statement
BankDiscard ==
    /\ bstatus = "ok"
    /\ bcall # NoBankCall
    /\ bcall' = NoBankCall
    /\ bret' = Zero
    /\ UNCHANGED <<battery_N, battery_input, m_banks, bstatus, dialVars, mapVars>>

NextBank ==
    \/ bstatus = "none" /\ \E N \in BatteryNs, input \in BatteryInputs : ConstructBattery(N, input)
    \/ BatteryJoltage
    \/ CanAskBattery /\ \E k \in 1..Len(m_banks) : BankJoltage(k)
    \/ BankDiscard

\* the Battery program: a Battery constructed from rows of digits and the calls made on it
SpecBank == Init /\ [][NextBank]_vars

----------------------------------------------------------------------------
(* What a joltage is meant to be, stated on the digits of a row.           *)

\* the ways to pick N of the positions of a row
Picks(row, N) == {S \in SUBSET (1..Len(row)) : Cardinality(S) = N}

\* the digits at the picked positions, in their original order
RECURSIVE Picked(_, _)
Picked(row, S) ==
    IF S = {} THEN <<>>
    ELSE LET m == CHOOSE x \in S : \A y \in S : x <= y
         IN  <<DigitVal(row[m])>> \o Picked(row, S \ {m})

\* a >= b for two numbers written with the same number of digits
RECURSIVE DigitsGe(_, _)
DigitsGe(a, b) ==
    IF a = <<>> THEN TRUE
    ELSE IF a[1] # b[1] THEN a[1] > b[1]
    ELSE DigitsGe(Tail(a), Tail(b))

\* the digits of the largest number that picking N digits of the row can form
LargestPick(row, N) ==
    LET all == {Picked(row, S) : S \in Picks(row, N)}
    IN  CHOOSE a \in all : \A b \in all : DigitsGe(a, b)

\* the number a row of digits writes
RECURSIVE ValueOf(_)
ValueOf(ds) ==
    IF ds = <<>> THEN Zero
    ELSE LET front == ValueOf(SubSeq(ds, 1, Len(ds) - 1))
         IN  BigAdd(BigScale(10, front), [hi |-> 0, lo |-> ds[Len(ds)]])

RECURSIVE SumOf(_, _)
SumOf(rows, N) ==
    IF rows = <<>> THEN Zero
    ELSE BigAdd(ValueOf(LargestPick(Head(rows), N)), SumOf(Tail(rows), N))

\* C17: for N >= 2 and every row of digits longer than N, the Bank's joltage
\* is the largest N-digit number that N of the row's digits, kept in order,
\* can form, and the Battery's joltage is the sum of its banks' joltages;
\* the test's rows give 98, 89, 78, 92 (sum 357) and the twelve-digit values.
C17_JoltageIsLargestPick ==
    bstatus = "ok" =>
        /\ Len(m_banks) = Len(battery_input)
        /\ \A k \in 1..Len(m_banks) :
               m_banks[k] = ValueOf(LargestPick(battery_input[k], battery_N))
        /\ bcall.op = "joltage" => bret = SumOf(battery_input, battery_N)
        /\ bcall.op = "bank_joltage" =>
               bret = ValueOf(LargestPick(battery_input[bcall.k], battery_N))
        /\ (battery_input = test_banks /\ battery_N = 2) =>
               /\ \A k \in 1..4 : m_banks[k] = [hi |-> 0, lo |-> test_bank_joltages_1[k]]
               /\ bcall.op = "joltage" => bret = [hi |-> 0, lo |-> test_joltage_sum_1]
        /\ (battery_input = test_banks /\ battery_N = 12) =>
               /\ m_banks = test_bank_joltages_2
               /\ bcall.op = "joltage" => bret = test_joltage_sum_2

\* the twelve-digit joltages of the test's rows have been summed
C17_Witness ==
    /\ bstatus = "ok"
    /\ battery_input = test_banks
    /\ battery_N = 12
    /\ bcall.op = "joltage"
    /\ bret = test_joltage_sum_2

----------------------------------------------------------------------------
(* Properties of the Dial at the edges of a rotation.                      *)

\* 100 - p clockwise, p counterclockwise
DistanceToZero(p, clockwise) == IF clockwise THEN 100 - p ELSE p

\* the call that has just returned is transform of a valid token of magnitude n
RotatedBy(n) ==
    /\ call.op = "transform"
    /\ WellFormed(call.arg)
    /\ Len(Magnitude(call.arg)) <= 3
    /\ DecimalValue(Magnitude(call.arg)) = n

\* C18: from every position, 0 included, a valid rotation of magnitude 0
\* ('L0' or 'R0') changes neither the position nor either counter.
C18_ZeroMagnitudeIsNoOp ==
    RotatedBy(0) =>
        /\ m_position = old.position
        /\ m_passes_zero_count = old.passes_zero_count
        /\ m_zero_count = old.zero_count

\* C19 as stated: from every position and in each direction, a rotation of
\* exactly distance_to_zero(p, d) adds 1 to the pass count, leaves the
\* position at 0 and adds 1 to the landing count.
C19_ExactDistanceIsOnePass ==
    RotatedBy(DistanceToZero(old.position, Clockwise(call.arg))) =>
        /\ m_passes_zero_count = old.passes_zero_count + 1
        /\ m_position = 0
        /\ m_zero_count = old.zero_count + 1

\* C19 amended: the same for every position and direction whose distance to
\* zero is not 0, that is all but counterclockwise from position 0.
C19_ExactPositiveDistanceIsOnePass ==
    (/\ RotatedBy(DistanceToZero(old.position, Clockwise(call.arg)))
     /\ DistanceToZero(old.position, Clockwise(call.arg)) > 0) =>
        /\ m_passes_zero_count = old.passes_zero_count + 1
        /\ m_position = 0
        /\ m_zero_count = old.zero_count + 1

\* a full turn clockwise from 0
C19_Witness ==
    /\ call.op = "transform"
    /\ call.arg = Tok("R", 100)
    /\ old.position = 0
    /\ m_position = 0
    /\ m_passes_zero_count = old.passes_zero_count + 1

\* C20: in every state reached from a fresh Dial by valid and malformed
\* tokens, the pass count is at least the landing count.
C20_PassesAtLeastLandings == m_passes_zero_count >= m_zero_count

----------------------------------------------------------------------------
(* Properties of the neighbour scan and of the two cell arrays.            *)

\* C21: for every grid shape, one column, one row and 1x1 included, and
\* every in-bounds marked cell, the scan of is_accessible_paper reads only
\* cells with coordinates in [0, W) x [0, H): it reads nothing outside the
\* cell array, wraps to no other row or column, and raises no error.
C21_ScanStaysInGrid ==
    (/\ mcall.op = "is_accessible_paper"
     /\ mcall.i < m_width
     /\ mcall.j < m_height
     /\ Marked(mcall.i, mcall.j)) =>
        /\ mstatus = "ok"
        /\ mret.exc = ""
        /\ mret.reads \subseteq 0..(Len(m_map) - 1)
        /\ NeighbourCoordinates(m_width, m_height, mcall.i, mcall.j)
               \subseteq Cells(m_width, m_height)

\* the cell the character in column x of row y of the text stands for
ParsedCell(x, y) ==
    LET c == TextRows(map_data)[y + 1][x + 1]
    IN  IF c = "." THEN "NONE" ELSE IF c = "@" THEN "PAPER" ELSE "INVALID"

----------------------------------------------------------------------------
(* The width of the parsed magnitude.                                      *)

\* the magnitude of the token is at most 2^64 - 1
FitsIn64Bits(raw) ==
    \/ Len(Magnitude(raw)) < Len(ULONG_MAX)
    \/ Len(Magnitude(raw)) = Len(ULONG_MAX) /\ ~DigitsGreater(Magnitude(raw), ULONG_MAX)

\* C23: for every decimal magnitude m that fits in 64 bits, 2^32 and above
\* included, a valid token leaves the position at (p + m) mod 100 clockwise
\* and (p - m) mod 100 counterclockwise, and adds the passes of m clicks:
\* the 32-bit size field changes neither.
C23_WideMagnitudeKeepsResult ==
    (/\ call.op = "transform"
     /\ WellFormed(call.arg)
     /\ FitsIn64Bits(call.arg)) =>
        /\ ~terminated
        /\ m_position = Rotated(old.position, call.arg)
        /\ m_passes_zero_count = old.passes_zero_count + Clicks(old.position, call.arg)

====
